---------------------------- MODULE Spec2Model ----------------------------
(***************************************************************************)
(* A model of scripts/update_publications.py: the paginated fetch of      *)
(* publication records, the field extractors, the HTML renderer and the   *)
(* patching of index.html between two marker comments.                    *)
(*                                                                         *)
(* Text.  A Python str is modelled as a sequence of tokens.  The text of   *)
(* the records and of index.html, the marker comments included, is made   *)
(* of one token a character: the character itself where a TLA+ string     *)
(* can hold it, [chr N] for the control characters, the grave accent and  *)
(* DEL with the decimal code N, and [U+XXXX] for the characters from      *)
(* code 128 on with the hexadecimal code XXXX; Chr gives the token of a   *)
(* code.  What build_html writes around the text of the records (a piece  *)
(* of HTML markup, an indentation, an entity of html.escape, a formatted  *)
(* integer) is one token a piece.  The text a sequence denotes is the     *)
(* concatenation of its tokens.  The case conversions, the whitespace     *)
(* and the digits are those of Unicode 14, as Python 3.11 has them.       *)
(*                                                                         *)
(* Dictionaries.  A Python dict is a function whose DOMAIN is the set of   *)
(* keys that are present; d.get(k, default) is Get(d, k, default).        *)
(***************************************************************************)
EXTENDS Integers, Sequences, FiniteSets, TLC

VARIABLES
    pc,                \* position of main(): "fetch", "build", "update", "exited"
    page,              \* fetch_publications: the page requested next
    publications,      \* fetch_publications: the records collected so far
    requests,          \* the pages requested from the service, in order
    index,             \* the content of index.html
    index_reads,       \* how often index.html was opened for reading
    index_writes,      \* how often index.html was opened for writing
    publications_html, \* main: the fragment build_html returned
    count,             \* update_index: the count re.subn returned
    success,           \* main: what update_index returned
    exit_code,         \* the status the process ended with
    history,           \* the content of index.html after each update_index
    input,             \* the argument of the function applied
    output             \* the results of the function applied, in order

vars == << pc, page, publications, requests, index, index_reads, index_writes,
           publications_html, count, success, exit_code, history, input,
           output >>

-----------------------------------------------------------------------------
(* Program constants *)

AUTHOR_MTID == 10081350
MARKER_START ==
    << "<", "!", "-", "-", " ", "P", "U", "B", "L", "I", "C", "A", "T",
       "I", "O", "N", "S", "_", "S", "T", "A", "R", "T", " ", "-", "-", ">" >>
MARKER_END ==
    << "<", "!", "-", "-", " ", "P", "U", "B", "L", "I", "C", "A", "T",
       "I", "O", "N", "S", "_", "E", "N", "D", " ", "-", "-", ">" >>
MissingListPosition == 999
MinTitleCaseLen == 5

-----------------------------------------------------------------------------
(* Text primitives *)

Get(d, k, default) == IF k \in DOMAIN d THEN d[k] ELSE default

Truthy(d) == d # <<>>

\* the characters with the codes 32..126, in order (the grave accent, code
\* 96, has the token [chr 96])
Printable ==
    << " ", "!", "\"", "#", "$", "%", "&", "'", "(", ")", "*", "+",
       ",", "-", ".", "/", "0", "1", "2", "3", "4", "5", "6", "7",
       "8", "9", ":", ";", "<", "=", ">", "?", "@", "A", "B", "C",
       "D", "E", "F", "G", "H", "I", "J", "K", "L", "M", "N", "O",
       "P", "Q", "R", "S", "T", "U", "V", "W", "X", "Y", "Z", "[",
       "\\", "]", "^", "_", "[chr 96]", "a", "b", "c", "d", "e", "f", "g",
       "h", "i", "j", "k", "l", "m", "n", "o", "p", "q", "r", "s",
       "t", "u", "v", "w", "x", "y", "z", "{", "|", "}", "~" >>

HexDigits ==
    << "0", "1", "2", "3", "4", "5", "6", "7", "8", "9", "A", "B", "C", "D",
       "E", "F" >>

\* the code v in hexadecimal, with at least width digits
RECURSIVE Hex(_, _)
Hex(v, width) ==
    IF v < 16 /\ width <= 1 THEN HexDigits[v + 1]
    ELSE Hex(v \div 16, width - 1) \o HexDigits[(v % 16) + 1]

\* chr(v): the token of the character with code v
Chr(v) ==
    CASE v = 9  -> "\t"
      [] v = 10 -> "\n"
      [] v = 12 -> "\f"
      [] v = 13 -> "\r"
      [] v >= 32 /\ v <= 126 -> Printable[v - 31]
      [] v >= 128 -> "[U+" \o Hex(v, 4) \o "]"
      [] OTHER -> "[chr " \o ToString(v) \o "]"

CodesOf(code_ranges) == UNION { r[1]..r[2] : r \in code_ranges }

\* the codes of the characters that are the digit zero of a script: the
\* ten decimal digits of a script have consecutive codes
DecimalZeros ==
    { 48, 1632, 1776, 1984, 2406, 2534, 2662, 2790, 2918, 3046, 3174, 3302,
      3430, 3558, 3664, 3792, 3872, 4160, 4240, 6112, 6160, 6470, 6608, 6784,
      6800, 6992, 7088, 7232, 7248, 42528, 43216, 43264, 43472, 43504, 43600,
      44016, 65296, 66720, 68912, 69734, 69872, 69942, 70096, 70384, 70736,
      70864, 71248, 71360, 71472, 71904, 72016, 72784, 73040, 73120, 92768,
      92864, 93008, 120782, 120792, 120802, 120812, 120822, 123200, 123632,
      125264, 130032 }

\* the codes of the whitespace characters
SpaceCodes ==
    { 9, 10, 11, 12, 13, 28, 29, 30, 31, 32, 133, 160, 5760, 8192, 8193, 8194,
      8195, 8196, 8197, 8198, 8199, 8200, 8201, 8202, 8232, 8233, 8239, 8287,
      12288 }

\* the ranges of the codes of the cased characters
CasedRanges ==
    { << 65, 90 >>, << 97, 122 >>, << 170, 170 >>, << 181, 181 >>, << 186, 186
      >>, << 192, 214 >>, << 216, 246 >>, << 248, 442 >>, << 444, 447 >>, <<
      452, 659 >>, << 661, 696 >>, << 704, 705 >>, << 736, 740 >>, << 837, 837
      >>, << 880, 883 >>, << 886, 887 >>, << 890, 893 >>, << 895, 895 >>, <<
      902, 902 >>, << 904, 906 >>, << 908, 908 >>, << 910, 929 >>, << 931,
      1013 >>, << 1015, 1153 >>, << 1162, 1327 >>, << 1329, 1366 >>, << 1376,
      1416 >>, << 4256, 4293 >>, << 4295, 4295 >>, << 4301, 4301 >>, << 4304,
      4346 >>, << 4349, 4351 >>, << 5024, 5109 >>, << 5112, 5117 >>, << 7296,
      7304 >>, << 7312, 7354 >>, << 7357, 7359 >>, << 7424, 7615 >>, << 7680,
      7957 >>, << 7960, 7965 >>, << 7968, 8005 >>, << 8008, 8013 >>, << 8016,
      8023 >>, << 8025, 8025 >>, << 8027, 8027 >>, << 8029, 8029 >>, << 8031,
      8061 >>, << 8064, 8116 >>, << 8118, 8124 >>, << 8126, 8126 >>, << 8130,
      8132 >>, << 8134, 8140 >>, << 8144, 8147 >>, << 8150, 8155 >>, << 8160,
      8172 >>, << 8178, 8180 >>, << 8182, 8188 >>, << 8305, 8305 >>, << 8319,
      8319 >>, << 8336, 8348 >>, << 8450, 8450 >>, << 8455, 8455 >>, << 8458,
      8467 >>, << 8469, 8469 >>, << 8473, 8477 >>, << 8484, 8484 >>, << 8486,
      8486 >>, << 8488, 8488 >>, << 8490, 8493 >>, << 8495, 8500 >>, << 8505,
      8505 >>, << 8508, 8511 >>, << 8517, 8521 >>, << 8526, 8526 >>, << 8544,
      8575 >>, << 8579, 8580 >>, << 9398, 9449 >>, << 11264, 11492 >>, <<
      11499, 11502 >>, << 11506, 11507 >>, << 11520, 11557 >>, << 11559, 11559
      >>, << 11565, 11565 >>, << 42560, 42605 >>, << 42624, 42653 >>, <<
      42786, 42887 >>, << 42891, 42894 >>, << 42896, 42954 >>, << 42960, 42961
      >>, << 42963, 42963 >>, << 42965, 42969 >>, << 42997, 42998 >>, <<
      43000, 43002 >>, << 43824, 43866 >>, << 43868, 43880 >>, << 43888, 43967
      >>, << 64256, 64262 >>, << 64275, 64279 >>, << 65313, 65338 >>, <<
      65345, 65370 >>, << 66560, 66639 >>, << 66736, 66771 >>, << 66776, 66811
      >>, << 66928, 66938 >>, << 66940, 66954 >>, << 66956, 66962 >>, <<
      66964, 66965 >>, << 66967, 66977 >>, << 66979, 66993 >>, << 66995, 67001
      >>, << 67003, 67004 >>, << 67456, 67456 >>, << 67459, 67461 >>, <<
      67463, 67504 >>, << 67506, 67514 >>, << 68736, 68786 >>, << 68800, 68850
      >>, << 71840, 71903 >>, << 93760, 93823 >>, << 119808, 119892 >>, <<
      119894, 119964 >>, << 119966, 119967 >>, << 119970, 119970 >>, <<
      119973, 119974 >>, << 119977, 119980 >>, << 119982, 119993 >>, <<
      119995, 119995 >>, << 119997, 120003 >>, << 120005, 120069 >>, <<
      120071, 120074 >>, << 120077, 120084 >>, << 120086, 120092 >>, <<
      120094, 120121 >>, << 120123, 120126 >>, << 120128, 120132 >>, <<
      120134, 120134 >>, << 120138, 120144 >>, << 120146, 120485 >>, <<
      120488, 120512 >>, << 120514, 120538 >>, << 120540, 120570 >>, <<
      120572, 120596 >>, << 120598, 120628 >>, << 120630, 120654 >>, <<
      120656, 120686 >>, << 120688, 120712 >>, << 120714, 120744 >>, <<
      120746, 120770 >>, << 120772, 120779 >>, << 122624, 122633 >>, <<
      122635, 122654 >>, << 125184, 125251 >>, << 127280, 127305 >>, <<
      127312, 127337 >>, << 127344, 127369 >> }

\* the ranges of the codes of the case-ignorable characters
CaseIgnorableRanges ==
    { << 39, 39 >>, << 46, 46 >>, << 58, 58 >>, << 94, 94 >>, << 96, 96 >>, <<
      168, 168 >>, << 173, 173 >>, << 175, 175 >>, << 180, 180 >>, << 183, 184
      >>, << 688, 879 >>, << 884, 885 >>, << 890, 890 >>, << 900, 901 >>, <<
      903, 903 >>, << 1155, 1161 >>, << 1369, 1369 >>, << 1375, 1375 >>, <<
      1425, 1469 >>, << 1471, 1471 >>, << 1473, 1474 >>, << 1476, 1477 >>, <<
      1479, 1479 >>, << 1524, 1524 >>, << 1536, 1541 >>, << 1552, 1562 >>, <<
      1564, 1564 >>, << 1600, 1600 >>, << 1611, 1631 >>, << 1648, 1648 >>, <<
      1750, 1757 >>, << 1759, 1768 >>, << 1770, 1773 >>, << 1807, 1807 >>, <<
      1809, 1809 >>, << 1840, 1866 >>, << 1958, 1968 >>, << 2027, 2037 >>, <<
      2042, 2042 >>, << 2045, 2045 >>, << 2070, 2093 >>, << 2137, 2139 >>, <<
      2184, 2184 >>, << 2192, 2193 >>, << 2200, 2207 >>, << 2249, 2306 >>, <<
      2362, 2362 >>, << 2364, 2364 >>, << 2369, 2376 >>, << 2381, 2381 >>, <<
      2385, 2391 >>, << 2402, 2403 >>, << 2417, 2417 >>, << 2433, 2433 >>, <<
      2492, 2492 >>, << 2497, 2500 >>, << 2509, 2509 >>, << 2530, 2531 >>, <<
      2558, 2558 >>, << 2561, 2562 >>, << 2620, 2620 >>, << 2625, 2626 >>, <<
      2631, 2632 >>, << 2635, 2637 >>, << 2641, 2641 >>, << 2672, 2673 >>, <<
      2677, 2677 >>, << 2689, 2690 >>, << 2748, 2748 >>, << 2753, 2757 >>, <<
      2759, 2760 >>, << 2765, 2765 >>, << 2786, 2787 >>, << 2810, 2815 >>, <<
      2817, 2817 >>, << 2876, 2876 >>, << 2879, 2879 >>, << 2881, 2884 >>, <<
      2893, 2893 >>, << 2901, 2902 >>, << 2914, 2915 >>, << 2946, 2946 >>, <<
      3008, 3008 >>, << 3021, 3021 >>, << 3072, 3072 >>, << 3076, 3076 >>, <<
      3132, 3132 >>, << 3134, 3136 >>, << 3142, 3144 >>, << 3146, 3149 >>, <<
      3157, 3158 >>, << 3170, 3171 >>, << 3201, 3201 >>, << 3260, 3260 >>, <<
      3263, 3263 >>, << 3270, 3270 >>, << 3276, 3277 >>, << 3298, 3299 >>, <<
      3328, 3329 >>, << 3387, 3388 >>, << 3393, 3396 >>, << 3405, 3405 >>, <<
      3426, 3427 >>, << 3457, 3457 >>, << 3530, 3530 >>, << 3538, 3540 >>, <<
      3542, 3542 >>, << 3633, 3633 >>, << 3636, 3642 >>, << 3654, 3662 >>, <<
      3761, 3761 >>, << 3764, 3772 >>, << 3782, 3782 >>, << 3784, 3789 >>, <<
      3864, 3865 >>, << 3893, 3893 >>, << 3895, 3895 >>, << 3897, 3897 >>, <<
      3953, 3966 >>, << 3968, 3972 >>, << 3974, 3975 >>, << 3981, 3991 >>, <<
      3993, 4028 >>, << 4038, 4038 >>, << 4141, 4144 >>, << 4146, 4151 >>, <<
      4153, 4154 >>, << 4157, 4158 >>, << 4184, 4185 >>, << 4190, 4192 >>, <<
      4209, 4212 >>, << 4226, 4226 >>, << 4229, 4230 >>, << 4237, 4237 >>, <<
      4253, 4253 >>, << 4348, 4348 >>, << 4957, 4959 >>, << 5906, 5908 >>, <<
      5938, 5939 >>, << 5970, 5971 >>, << 6002, 6003 >>, << 6068, 6069 >>, <<
      6071, 6077 >>, << 6086, 6086 >>, << 6089, 6099 >>, << 6103, 6103 >>, <<
      6109, 6109 >>, << 6155, 6159 >>, << 6211, 6211 >>, << 6277, 6278 >>, <<
      6313, 6313 >>, << 6432, 6434 >>, << 6439, 6440 >>, << 6450, 6450 >>, <<
      6457, 6459 >>, << 6679, 6680 >>, << 6683, 6683 >>, << 6742, 6742 >>, <<
      6744, 6750 >>, << 6752, 6752 >>, << 6754, 6754 >>, << 6757, 6764 >>, <<
      6771, 6780 >>, << 6783, 6783 >>, << 6823, 6823 >>, << 6832, 6862 >>, <<
      6912, 6915 >>, << 6964, 6964 >>, << 6966, 6970 >>, << 6972, 6972 >>, <<
      6978, 6978 >>, << 7019, 7027 >>, << 7040, 7041 >>, << 7074, 7077 >>, <<
      7080, 7081 >>, << 7083, 7085 >>, << 7142, 7142 >>, << 7144, 7145 >>, <<
      7149, 7149 >>, << 7151, 7153 >>, << 7212, 7219 >>, << 7222, 7223 >>, <<
      7288, 7293 >>, << 7376, 7378 >>, << 7380, 7392 >>, << 7394, 7400 >>, <<
      7405, 7405 >>, << 7412, 7412 >>, << 7416, 7417 >>, << 7468, 7530 >>, <<
      7544, 7544 >>, << 7579, 7679 >>, << 8125, 8125 >>, << 8127, 8129 >>, <<
      8141, 8143 >>, << 8157, 8159 >>, << 8173, 8175 >>, << 8189, 8190 >>, <<
      8203, 8207 >>, << 8216, 8217 >>, << 8228, 8228 >>, << 8231, 8231 >>, <<
      8234, 8238 >>, << 8288, 8292 >>, << 8294, 8303 >>, << 8305, 8305 >>, <<
      8319, 8319 >>, << 8336, 8348 >>, << 8400, 8432 >>, << 11388, 11389 >>,
      << 11503, 11505 >>, << 11631, 11631 >>, << 11647, 11647 >>, << 11744,
      11775 >>, << 11823, 11823 >>, << 12293, 12293 >>, << 12330, 12333 >>, <<
      12337, 12341 >>, << 12347, 12347 >>, << 12441, 12446 >>, << 12540, 12542
      >>, << 40981, 40981 >>, << 42232, 42237 >>, << 42508, 42508 >>, <<
      42607, 42610 >>, << 42612, 42621 >>, << 42623, 42623 >>, << 42652, 42655
      >>, << 42736, 42737 >>, << 42752, 42785 >>, << 42864, 42864 >>, <<
      42888, 42890 >>, << 42994, 42996 >>, << 43000, 43001 >>, << 43010, 43010
      >>, << 43014, 43014 >>, << 43019, 43019 >>, << 43045, 43046 >>, <<
      43052, 43052 >>, << 43204, 43205 >>, << 43232, 43249 >>, << 43263, 43263
      >>, << 43302, 43309 >>, << 43335, 43345 >>, << 43392, 43394 >>, <<
      43443, 43443 >>, << 43446, 43449 >>, << 43452, 43453 >>, << 43471, 43471
      >>, << 43493, 43494 >>, << 43561, 43566 >>, << 43569, 43570 >>, <<
      43573, 43574 >>, << 43587, 43587 >>, << 43596, 43596 >>, << 43632, 43632
      >>, << 43644, 43644 >>, << 43696, 43696 >>, << 43698, 43700 >>, <<
      43703, 43704 >>, << 43710, 43711 >>, << 43713, 43713 >>, << 43741, 43741
      >>, << 43756, 43757 >>, << 43763, 43764 >>, << 43766, 43766 >>, <<
      43867, 43871 >>, << 43881, 43883 >>, << 44005, 44005 >>, << 44008, 44008
      >>, << 44013, 44013 >>, << 64286, 64286 >>, << 64434, 64450 >>, <<
      65024, 65039 >>, << 65043, 65043 >>, << 65056, 65071 >>, << 65106, 65106
      >>, << 65109, 65109 >>, << 65279, 65279 >>, << 65287, 65287 >>, <<
      65294, 65294 >>, << 65306, 65306 >>, << 65342, 65342 >>, << 65344, 65344
      >>, << 65392, 65392 >>, << 65438, 65439 >>, << 65507, 65507 >>, <<
      65529, 65531 >>, << 66045, 66045 >>, << 66272, 66272 >>, << 66422, 66426
      >>, << 67456, 67461 >>, << 67463, 67504 >>, << 67506, 67514 >>, <<
      68097, 68099 >>, << 68101, 68102 >>, << 68108, 68111 >>, << 68152, 68154
      >>, << 68159, 68159 >>, << 68325, 68326 >>, << 68900, 68903 >>, <<
      69291, 69292 >>, << 69446, 69456 >>, << 69506, 69509 >>, << 69633, 69633
      >>, << 69688, 69702 >>, << 69744, 69744 >>, << 69747, 69748 >>, <<
      69759, 69761 >>, << 69811, 69814 >>, << 69817, 69818 >>, << 69821, 69821
      >>, << 69826, 69826 >>, << 69837, 69837 >>, << 69888, 69890 >>, <<
      69927, 69931 >>, << 69933, 69940 >>, << 70003, 70003 >>, << 70016, 70017
      >>, << 70070, 70078 >>, << 70089, 70092 >>, << 70095, 70095 >>, <<
      70191, 70193 >>, << 70196, 70196 >>, << 70198, 70199 >>, << 70206, 70206
      >>, << 70367, 70367 >>, << 70371, 70378 >>, << 70400, 70401 >>, <<
      70459, 70460 >>, << 70464, 70464 >>, << 70502, 70508 >>, << 70512, 70516
      >>, << 70712, 70719 >>, << 70722, 70724 >>, << 70726, 70726 >>, <<
      70750, 70750 >>, << 70835, 70840 >>, << 70842, 70842 >>, << 70847, 70848
      >>, << 70850, 70851 >>, << 71090, 71093 >>, << 71100, 71101 >>, <<
      71103, 71104 >>, << 71132, 71133 >>, << 71219, 71226 >>, << 71229, 71229
      >>, << 71231, 71232 >>, << 71339, 71339 >>, << 71341, 71341 >>, <<
      71344, 71349 >>, << 71351, 71351 >>, << 71453, 71455 >>, << 71458, 71461
      >>, << 71463, 71467 >>, << 71727, 71735 >>, << 71737, 71738 >>, <<
      71995, 71996 >>, << 71998, 71998 >>, << 72003, 72003 >>, << 72148, 72151
      >>, << 72154, 72155 >>, << 72160, 72160 >>, << 72193, 72202 >>, <<
      72243, 72248 >>, << 72251, 72254 >>, << 72263, 72263 >>, << 72273, 72278
      >>, << 72281, 72283 >>, << 72330, 72342 >>, << 72344, 72345 >>, <<
      72752, 72758 >>, << 72760, 72765 >>, << 72767, 72767 >>, << 72850, 72871
      >>, << 72874, 72880 >>, << 72882, 72883 >>, << 72885, 72886 >>, <<
      73009, 73014 >>, << 73018, 73018 >>, << 73020, 73021 >>, << 73023, 73029
      >>, << 73031, 73031 >>, << 73104, 73105 >>, << 73109, 73109 >>, <<
      73111, 73111 >>, << 73459, 73460 >>, << 78896, 78904 >>, << 92912, 92916
      >>, << 92976, 92982 >>, << 92992, 92995 >>, << 94031, 94031 >>, <<
      94095, 94111 >>, << 94176, 94177 >>, << 94179, 94180 >>, << 110576,
      110579 >>, << 110581, 110587 >>, << 110589, 110590 >>, << 113821, 113822
      >>, << 113824, 113827 >>, << 118528, 118573 >>, << 118576, 118598 >>, <<
      119143, 119145 >>, << 119155, 119170 >>, << 119173, 119179 >>, <<
      119210, 119213 >>, << 119362, 119364 >>, << 121344, 121398 >>, <<
      121403, 121452 >>, << 121461, 121461 >>, << 121476, 121476 >>, <<
      121499, 121503 >>, << 121505, 121519 >>, << 122880, 122886 >>, <<
      122888, 122904 >>, << 122907, 122913 >>, << 122915, 122916 >>, <<
      122918, 122922 >>, << 123184, 123197 >>, << 123566, 123566 >>, <<
      123628, 123631 >>, << 125136, 125142 >>, << 125252, 125259 >>, <<
      127995, 127999 >>, << 917505, 917505 >>, << 917536, 917631 >>, <<
      917760, 917999 >> }

\* str.upper() of one character, where the result is one other character: the
\* codes lo, lo + step, .. hi go to the code plus delta, as
\* << lo, hi, step, delta >>
UpperRuns ==
    << << 97, 122, 1, -32 >>, << 181, 181, 1, 743 >>, << 224, 246, 1, -32 >>,
       << 248, 254, 1, -32 >>, << 255, 255, 1, 121 >>, << 257, 303, 2, -1 >>,
       << 305, 305, 1, -232 >>, << 307, 311, 2, -1 >>, << 314, 328, 2, -1 >>,
       << 331, 375, 2, -1 >>, << 378, 382, 2, -1 >>, << 383, 383, 1, -300 >>,
       << 384, 384, 1, 195 >>, << 387, 389, 2, -1 >>, << 392, 392, 1, -1 >>, <<
       396, 396, 1, -1 >>, << 402, 402, 1, -1 >>, << 405, 405, 1, 97 >>, <<
       409, 409, 1, -1 >>, << 410, 410, 1, 163 >>, << 414, 414, 1, 130 >>, <<
       417, 421, 2, -1 >>, << 424, 424, 1, -1 >>, << 429, 429, 1, -1 >>, <<
       432, 432, 1, -1 >>, << 436, 438, 2, -1 >>, << 441, 441, 1, -1 >>, <<
       445, 445, 1, -1 >>, << 447, 447, 1, 56 >>, << 453, 453, 1, -1 >>, <<
       454, 454, 1, -2 >>, << 456, 456, 1, -1 >>, << 457, 457, 1, -2 >>, <<
       459, 459, 1, -1 >>, << 460, 460, 1, -2 >>, << 462, 476, 2, -1 >>, <<
       477, 477, 1, -79 >>, << 479, 495, 2, -1 >>, << 498, 498, 1, -1 >>, <<
       499, 499, 1, -2 >>, << 501, 501, 1, -1 >>, << 505, 543, 2, -1 >>, <<
       547, 563, 2, -1 >>, << 572, 572, 1, -1 >>, << 575, 576, 1, 10815 >>, <<
       578, 578, 1, -1 >>, << 583, 591, 2, -1 >>, << 592, 592, 1, 10783 >>, <<
       593, 593, 1, 10780 >>, << 594, 594, 1, 10782 >>, << 595, 595, 1, -210
       >>, << 596, 596, 1, -206 >>, << 598, 599, 1, -205 >>, << 601, 601, 1,
       -202 >>, << 603, 603, 1, -203 >>, << 604, 604, 1, 42319 >>, << 608, 608,
       1, -205 >>, << 609, 609, 1, 42315 >>, << 611, 611, 1, -207 >>, << 613,
       613, 1, 42280 >>, << 614, 614, 1, 42308 >>, << 616, 616, 1, -209 >>, <<
       617, 617, 1, -211 >>, << 618, 618, 1, 42308 >>, << 619, 619, 1, 10743
       >>, << 620, 620, 1, 42305 >>, << 623, 623, 1, -211 >>, << 625, 625, 1,
       10749 >>, << 626, 626, 1, -213 >>, << 629, 629, 1, -214 >>, << 637, 637,
       1, 10727 >>, << 640, 640, 1, -218 >>, << 642, 642, 1, 42307 >>, << 643,
       643, 1, -218 >>, << 647, 647, 1, 42282 >>, << 648, 648, 1, -218 >>, <<
       649, 649, 1, -69 >>, << 650, 651, 1, -217 >>, << 652, 652, 1, -71 >>, <<
       658, 658, 1, -219 >>, << 669, 669, 1, 42261 >>, << 670, 670, 1, 42258
       >>, << 837, 837, 1, 84 >>, << 881, 883, 2, -1 >>, << 887, 887, 1, -1 >>,
       << 891, 893, 1, 130 >>, << 940, 940, 1, -38 >>, << 941, 943, 1, -37 >>,
       << 945, 961, 1, -32 >>, << 962, 962, 1, -31 >>, << 963, 971, 1, -32 >>,
       << 972, 972, 1, -64 >>, << 973, 974, 1, -63 >>, << 976, 976, 1, -62 >>,
       << 977, 977, 1, -57 >>, << 981, 981, 1, -47 >>, << 982, 982, 1, -54 >>,
       << 983, 983, 1, -8 >>, << 985, 1007, 2, -1 >>, << 1008, 1008, 1, -86 >>,
       << 1009, 1009, 1, -80 >>, << 1010, 1010, 1, 7 >>, << 1011, 1011, 1, -116
       >>, << 1013, 1013, 1, -96 >>, << 1016, 1016, 1, -1 >>, << 1019, 1019, 1,
       -1 >>, << 1072, 1103, 1, -32 >>, << 1104, 1119, 1, -80 >>, << 1121,
       1153, 2, -1 >>, << 1163, 1215, 2, -1 >>, << 1218, 1230, 2, -1 >>, <<
       1231, 1231, 1, -15 >>, << 1233, 1327, 2, -1 >>, << 1377, 1414, 1, -48
       >>, << 4304, 4346, 1, 3008 >>, << 4349, 4351, 1, 3008 >>, << 5112, 5117,
       1, -8 >>, << 7296, 7296, 1, -6254 >>, << 7297, 7297, 1, -6253 >>, <<
       7298, 7298, 1, -6244 >>, << 7299, 7300, 1, -6242 >>, << 7301, 7301, 1,
       -6243 >>, << 7302, 7302, 1, -6236 >>, << 7303, 7303, 1, -6181 >>, <<
       7304, 7304, 1, 35266 >>, << 7545, 7545, 1, 35332 >>, << 7549, 7549, 1,
       3814 >>, << 7566, 7566, 1, 35384 >>, << 7681, 7829, 2, -1 >>, << 7835,
       7835, 1, -59 >>, << 7841, 7935, 2, -1 >>, << 7936, 7943, 1, 8 >>, <<
       7952, 7957, 1, 8 >>, << 7968, 7975, 1, 8 >>, << 7984, 7991, 1, 8 >>, <<
       8000, 8005, 1, 8 >>, << 8017, 8023, 2, 8 >>, << 8032, 8039, 1, 8 >>, <<
       8048, 8049, 1, 74 >>, << 8050, 8053, 1, 86 >>, << 8054, 8055, 1, 100 >>,
       << 8056, 8057, 1, 128 >>, << 8058, 8059, 1, 112 >>, << 8060, 8061, 1,
       126 >>, << 8112, 8113, 1, 8 >>, << 8126, 8126, 1, -7205 >>, << 8144,
       8145, 1, 8 >>, << 8160, 8161, 1, 8 >>, << 8165, 8165, 1, 7 >>, << 8526,
       8526, 1, -28 >>, << 8560, 8575, 1, -16 >>, << 8580, 8580, 1, -1 >>, <<
       9424, 9449, 1, -26 >>, << 11312, 11359, 1, -48 >>, << 11361, 11361, 1,
       -1 >>, << 11365, 11365, 1, -10795 >>, << 11366, 11366, 1, -10792 >>, <<
       11368, 11372, 2, -1 >>, << 11379, 11379, 1, -1 >>, << 11382, 11382, 1,
       -1 >>, << 11393, 11491, 2, -1 >>, << 11500, 11502, 2, -1 >>, << 11507,
       11507, 1, -1 >>, << 11520, 11557, 1, -7264 >>, << 11559, 11559, 1, -7264
       >>, << 11565, 11565, 1, -7264 >>, << 42561, 42605, 2, -1 >>, << 42625,
       42651, 2, -1 >>, << 42787, 42799, 2, -1 >>, << 42803, 42863, 2, -1 >>,
       << 42874, 42876, 2, -1 >>, << 42879, 42887, 2, -1 >>, << 42892, 42892,
       1, -1 >>, << 42897, 42899, 2, -1 >>, << 42900, 42900, 1, 48 >>, <<
       42903, 42921, 2, -1 >>, << 42933, 42947, 2, -1 >>, << 42952, 42954, 2,
       -1 >>, << 42961, 42961, 1, -1 >>, << 42967, 42969, 2, -1 >>, << 42998,
       42998, 1, -1 >>, << 43859, 43859, 1, -928 >>, << 43888, 43967, 1, -38864
       >>, << 65345, 65370, 1, -32 >>, << 66600, 66639, 1, -40 >>, << 66776,
       66811, 1, -40 >>, << 66967, 66977, 1, -39 >>, << 66979, 66993, 1, -39
       >>, << 66995, 67001, 1, -39 >>, << 67003, 67004, 1, -39 >>, << 68800,
       68850, 1, -64 >>, << 71872, 71903, 1, -32 >>, << 93792, 93823, 1, -32
       >>, << 125218, 125251, 1, -34 >> >>

\* str.upper() of one character, where the result is several characters, as
\* << code, codes of the result >>
UpperFull ==
    << << 223, << 83, 83 >> >>, << 329, << 700, 78 >> >>, << 496, << 74, 780 >>
       >>, << 912, << 921, 776, 769 >> >>, << 944, << 933, 776, 769 >> >>, <<
       1415, << 1333, 1362 >> >>, << 7830, << 72, 817 >> >>, << 7831, << 84,
       776 >> >>, << 7832, << 87, 778 >> >>, << 7833, << 89, 778 >> >>, <<
       7834, << 65, 702 >> >>, << 8016, << 933, 787 >> >>, << 8018, << 933,
       787, 768 >> >>, << 8020, << 933, 787, 769 >> >>, << 8022, << 933, 787,
       834 >> >>, << 8064, << 7944, 921 >> >>, << 8065, << 7945, 921 >> >>, <<
       8066, << 7946, 921 >> >>, << 8067, << 7947, 921 >> >>, << 8068, << 7948,
       921 >> >>, << 8069, << 7949, 921 >> >>, << 8070, << 7950, 921 >> >>, <<
       8071, << 7951, 921 >> >>, << 8072, << 7944, 921 >> >>, << 8073, << 7945,
       921 >> >>, << 8074, << 7946, 921 >> >>, << 8075, << 7947, 921 >> >>, <<
       8076, << 7948, 921 >> >>, << 8077, << 7949, 921 >> >>, << 8078, << 7950,
       921 >> >>, << 8079, << 7951, 921 >> >>, << 8080, << 7976, 921 >> >>, <<
       8081, << 7977, 921 >> >>, << 8082, << 7978, 921 >> >>, << 8083, << 7979,
       921 >> >>, << 8084, << 7980, 921 >> >>, << 8085, << 7981, 921 >> >>, <<
       8086, << 7982, 921 >> >>, << 8087, << 7983, 921 >> >>, << 8088, << 7976,
       921 >> >>, << 8089, << 7977, 921 >> >>, << 8090, << 7978, 921 >> >>, <<
       8091, << 7979, 921 >> >>, << 8092, << 7980, 921 >> >>, << 8093, << 7981,
       921 >> >>, << 8094, << 7982, 921 >> >>, << 8095, << 7983, 921 >> >>, <<
       8096, << 8040, 921 >> >>, << 8097, << 8041, 921 >> >>, << 8098, << 8042,
       921 >> >>, << 8099, << 8043, 921 >> >>, << 8100, << 8044, 921 >> >>, <<
       8101, << 8045, 921 >> >>, << 8102, << 8046, 921 >> >>, << 8103, << 8047,
       921 >> >>, << 8104, << 8040, 921 >> >>, << 8105, << 8041, 921 >> >>, <<
       8106, << 8042, 921 >> >>, << 8107, << 8043, 921 >> >>, << 8108, << 8044,
       921 >> >>, << 8109, << 8045, 921 >> >>, << 8110, << 8046, 921 >> >>, <<
       8111, << 8047, 921 >> >>, << 8114, << 8122, 921 >> >>, << 8115, << 913,
       921 >> >>, << 8116, << 902, 921 >> >>, << 8118, << 913, 834 >> >>, <<
       8119, << 913, 834, 921 >> >>, << 8124, << 913, 921 >> >>, << 8130, <<
       8138, 921 >> >>, << 8131, << 919, 921 >> >>, << 8132, << 905, 921 >> >>,
       << 8134, << 919, 834 >> >>, << 8135, << 919, 834, 921 >> >>, << 8140, <<
       919, 921 >> >>, << 8146, << 921, 776, 768 >> >>, << 8147, << 921, 776,
       769 >> >>, << 8150, << 921, 834 >> >>, << 8151, << 921, 776, 834 >> >>,
       << 8162, << 933, 776, 768 >> >>, << 8163, << 933, 776, 769 >> >>, <<
       8164, << 929, 787 >> >>, << 8166, << 933, 834 >> >>, << 8167, << 933,
       776, 834 >> >>, << 8178, << 8186, 921 >> >>, << 8179, << 937, 921 >> >>,
       << 8180, << 911, 921 >> >>, << 8182, << 937, 834 >> >>, << 8183, << 937,
       834, 921 >> >>, << 8188, << 937, 921 >> >>, << 64256, << 70, 70 >> >>,
       << 64257, << 70, 73 >> >>, << 64258, << 70, 76 >> >>, << 64259, << 70,
       70, 73 >> >>, << 64260, << 70, 70, 76 >> >>, << 64261, << 83, 84 >> >>,
       << 64262, << 83, 84 >> >>, << 64275, << 1348, 1350 >> >>, << 64276, <<
       1348, 1333 >> >>, << 64277, << 1348, 1339 >> >>, << 64278, << 1358, 1350
       >> >>, << 64279, << 1348, 1341 >> >> >>

\* str.lower() of one character, where the result is one other character: the
\* codes lo, lo + step, .. hi go to the code plus delta, as
\* << lo, hi, step, delta >>
LowerRuns ==
    << << 65, 90, 1, 32 >>, << 192, 214, 1, 32 >>, << 216, 222, 1, 32 >>, <<
       256, 302, 2, 1 >>, << 306, 310, 2, 1 >>, << 313, 327, 2, 1 >>, << 330,
       374, 2, 1 >>, << 376, 376, 1, -121 >>, << 377, 381, 2, 1 >>, << 385,
       385, 1, 210 >>, << 386, 388, 2, 1 >>, << 390, 390, 1, 206 >>, << 391,
       391, 1, 1 >>, << 393, 394, 1, 205 >>, << 395, 395, 1, 1 >>, << 398, 398,
       1, 79 >>, << 399, 399, 1, 202 >>, << 400, 400, 1, 203 >>, << 401, 401,
       1, 1 >>, << 403, 403, 1, 205 >>, << 404, 404, 1, 207 >>, << 406, 406, 1,
       211 >>, << 407, 407, 1, 209 >>, << 408, 408, 1, 1 >>, << 412, 412, 1,
       211 >>, << 413, 413, 1, 213 >>, << 415, 415, 1, 214 >>, << 416, 420, 2,
       1 >>, << 422, 422, 1, 218 >>, << 423, 423, 1, 1 >>, << 425, 425, 1, 218
       >>, << 428, 428, 1, 1 >>, << 430, 430, 1, 218 >>, << 431, 431, 1, 1 >>,
       << 433, 434, 1, 217 >>, << 435, 437, 2, 1 >>, << 439, 439, 1, 219 >>, <<
       440, 440, 1, 1 >>, << 444, 444, 1, 1 >>, << 452, 452, 1, 2 >>, << 453,
       453, 1, 1 >>, << 455, 455, 1, 2 >>, << 456, 456, 1, 1 >>, << 458, 458,
       1, 2 >>, << 459, 475, 2, 1 >>, << 478, 494, 2, 1 >>, << 497, 497, 1, 2
       >>, << 498, 500, 2, 1 >>, << 502, 502, 1, -97 >>, << 503, 503, 1, -56
       >>, << 504, 542, 2, 1 >>, << 544, 544, 1, -130 >>, << 546, 562, 2, 1 >>,
       << 570, 570, 1, 10795 >>, << 571, 571, 1, 1 >>, << 573, 573, 1, -163 >>,
       << 574, 574, 1, 10792 >>, << 577, 577, 1, 1 >>, << 579, 579, 1, -195 >>,
       << 580, 580, 1, 69 >>, << 581, 581, 1, 71 >>, << 582, 590, 2, 1 >>, <<
       880, 882, 2, 1 >>, << 886, 886, 1, 1 >>, << 895, 895, 1, 116 >>, << 902,
       902, 1, 38 >>, << 904, 906, 1, 37 >>, << 908, 908, 1, 64 >>, << 910,
       911, 1, 63 >>, << 913, 929, 1, 32 >>, << 931, 939, 1, 32 >>, << 975,
       975, 1, 8 >>, << 984, 1006, 2, 1 >>, << 1012, 1012, 1, -60 >>, << 1015,
       1015, 1, 1 >>, << 1017, 1017, 1, -7 >>, << 1018, 1018, 1, 1 >>, << 1021,
       1023, 1, -130 >>, << 1024, 1039, 1, 80 >>, << 1040, 1071, 1, 32 >>, <<
       1120, 1152, 2, 1 >>, << 1162, 1214, 2, 1 >>, << 1216, 1216, 1, 15 >>, <<
       1217, 1229, 2, 1 >>, << 1232, 1326, 2, 1 >>, << 1329, 1366, 1, 48 >>, <<
       4256, 4293, 1, 7264 >>, << 4295, 4295, 1, 7264 >>, << 4301, 4301, 1,
       7264 >>, << 5024, 5103, 1, 38864 >>, << 5104, 5109, 1, 8 >>, << 7312,
       7354, 1, -3008 >>, << 7357, 7359, 1, -3008 >>, << 7680, 7828, 2, 1 >>,
       << 7838, 7838, 1, -7615 >>, << 7840, 7934, 2, 1 >>, << 7944, 7951, 1, -8
       >>, << 7960, 7965, 1, -8 >>, << 7976, 7983, 1, -8 >>, << 7992, 7999, 1,
       -8 >>, << 8008, 8013, 1, -8 >>, << 8025, 8031, 2, -8 >>, << 8040, 8047,
       1, -8 >>, << 8072, 8079, 1, -8 >>, << 8088, 8095, 1, -8 >>, << 8104,
       8111, 1, -8 >>, << 8120, 8121, 1, -8 >>, << 8122, 8123, 1, -74 >>, <<
       8124, 8124, 1, -9 >>, << 8136, 8139, 1, -86 >>, << 8140, 8140, 1, -9 >>,
       << 8152, 8153, 1, -8 >>, << 8154, 8155, 1, -100 >>, << 8168, 8169, 1, -8
       >>, << 8170, 8171, 1, -112 >>, << 8172, 8172, 1, -7 >>, << 8184, 8185,
       1, -128 >>, << 8186, 8187, 1, -126 >>, << 8188, 8188, 1, -9 >>, << 8486,
       8486, 1, -7517 >>, << 8490, 8490, 1, -8383 >>, << 8491, 8491, 1, -8262
       >>, << 8498, 8498, 1, 28 >>, << 8544, 8559, 1, 16 >>, << 8579, 8579, 1,
       1 >>, << 9398, 9423, 1, 26 >>, << 11264, 11311, 1, 48 >>, << 11360,
       11360, 1, 1 >>, << 11362, 11362, 1, -10743 >>, << 11363, 11363, 1, -3814
       >>, << 11364, 11364, 1, -10727 >>, << 11367, 11371, 2, 1 >>, << 11373,
       11373, 1, -10780 >>, << 11374, 11374, 1, -10749 >>, << 11375, 11375, 1,
       -10783 >>, << 11376, 11376, 1, -10782 >>, << 11378, 11378, 1, 1 >>, <<
       11381, 11381, 1, 1 >>, << 11390, 11391, 1, -10815 >>, << 11392, 11490,
       2, 1 >>, << 11499, 11501, 2, 1 >>, << 11506, 11506, 1, 1 >>, << 42560,
       42604, 2, 1 >>, << 42624, 42650, 2, 1 >>, << 42786, 42798, 2, 1 >>, <<
       42802, 42862, 2, 1 >>, << 42873, 42875, 2, 1 >>, << 42877, 42877, 1,
       -35332 >>, << 42878, 42886, 2, 1 >>, << 42891, 42891, 1, 1 >>, << 42893,
       42893, 1, -42280 >>, << 42896, 42898, 2, 1 >>, << 42902, 42920, 2, 1 >>,
       << 42922, 42922, 1, -42308 >>, << 42923, 42923, 1, -42319 >>, << 42924,
       42924, 1, -42315 >>, << 42925, 42925, 1, -42305 >>, << 42926, 42926, 1,
       -42308 >>, << 42928, 42928, 1, -42258 >>, << 42929, 42929, 1, -42282 >>,
       << 42930, 42930, 1, -42261 >>, << 42931, 42931, 1, 928 >>, << 42932,
       42946, 2, 1 >>, << 42948, 42948, 1, -48 >>, << 42949, 42949, 1, -42307
       >>, << 42950, 42950, 1, -35384 >>, << 42951, 42953, 2, 1 >>, << 42960,
       42960, 1, 1 >>, << 42966, 42968, 2, 1 >>, << 42997, 42997, 1, 1 >>, <<
       65313, 65338, 1, 32 >>, << 66560, 66599, 1, 40 >>, << 66736, 66771, 1,
       40 >>, << 66928, 66938, 1, 39 >>, << 66940, 66954, 1, 39 >>, << 66956,
       66962, 1, 39 >>, << 66964, 66965, 1, 39 >>, << 68736, 68786, 1, 64 >>,
       << 71840, 71871, 1, 32 >>, << 93760, 93791, 1, 32 >>, << 125184, 125217,
       1, 34 >> >>

\* str.lower() of one character, where the result is several characters, as
\* << code, codes of the result >>
LowerFull ==
    << << 304, << 105, 775 >> >> >>

\* str.title(), where it is not that of str.upper() of one character, where the result is one other character: the
\* codes lo, lo + step, .. hi go to the code plus delta, as
\* << lo, hi, step, delta >>
TitleRuns ==
    << << 452, 452, 1, 1 >>, << 453, 453, 1, 0 >>, << 454, 454, 1, -1 >>, <<
       455, 455, 1, 1 >>, << 456, 456, 1, 0 >>, << 457, 457, 1, -1 >>, << 458,
       458, 1, 1 >>, << 459, 459, 1, 0 >>, << 460, 460, 1, -1 >>, << 497, 497,
       1, 1 >>, << 498, 498, 1, 0 >>, << 499, 499, 1, -1 >>, << 4304, 4346, 1,
       0 >>, << 4349, 4351, 1, 0 >>, << 8064, 8071, 1, 8 >>, << 8072, 8079, 1,
       0 >>, << 8080, 8087, 1, 8 >>, << 8088, 8095, 1, 0 >>, << 8096, 8103, 1,
       8 >>, << 8104, 8111, 1, 0 >>, << 8115, 8115, 1, 9 >>, << 8124, 8124, 1,
       0 >>, << 8131, 8131, 1, 9 >>, << 8140, 8140, 1, 0 >>, << 8179, 8179, 1,
       9 >>, << 8188, 8188, 1, 0 >> >>

\* str.title(), where it is not that of str.upper() of one character, where the result is several characters, as
\* << code, codes of the result >>
TitleFull ==
    << << 223, << 83, 115 >> >>, << 1415, << 1333, 1410 >> >>, << 8114, <<
       8122, 837 >> >>, << 8116, << 902, 837 >> >>, << 8119, << 913, 834, 837
       >> >>, << 8130, << 8138, 837 >> >>, << 8132, << 905, 837 >> >>, << 8135,
       << 919, 834, 837 >> >>, << 8178, << 8186, 837 >> >>, << 8180, << 911,
       837 >> >>, << 8183, << 937, 834, 837 >> >>, << 64256, << 70, 102 >> >>,
       << 64257, << 70, 105 >> >>, << 64258, << 70, 108 >> >>, << 64259, << 70,
       102, 105 >> >>, << 64260, << 70, 102, 108 >> >>, << 64261, << 83, 116 >>
       >>, << 64262, << 83, 116 >> >>, << 64275, << 1348, 1398 >> >>, << 64276,
       << 1348, 1381 >> >>, << 64277, << 1348, 1387 >> >>, << 64278, << 1358,
       1398 >> >>, << 64279, << 1348, 1389 >> >> >>

\* the characters re's \d matches in a str pattern
Digits == { Chr(z + k) : z \in DecimalZeros, k \in 0..9 }

\* the digits whose value is 0
ZeroDigits == { Chr(z) : z \in DecimalZeros }

\* the characters re's \s matches in a str pattern, which are the
\* characters str.strip() strips
Spaces == { Chr(c) : c \in SpaceCodes }

Cased == { Chr(c) : c \in CodesOf(CasedRanges) }

CaseIgnorable == { Chr(c) : c \in CodesOf(CaseIgnorableRanges) }

IsCased(c) == c \in Cased
IsCaseIgnorable(c) == c \in CaseIgnorable
IsDigit(c) == c \in Digits
IsSpace(c) == c \in Spaces

\* the characters of one run, each with the character it goes to
RECURSIVE RunMap(_, _)
RunMap(run, c) ==
    IF c = run[2] THEN Chr(c) :> << Chr(c + run[4]) >>
    ELSE (Chr(c) :> << Chr(c + run[4]) >>) @@ RunMap(run, c + run[3])

RECURSIVE MapOfRuns(_, _, _)
MapOfRuns(runs, lo, hi) ==
    IF lo = hi THEN RunMap(runs[lo], runs[lo][1])
    ELSE MapOfRuns(runs, lo, (lo + hi) \div 2)
         @@ MapOfRuns(runs, (lo + hi) \div 2 + 1, hi)

RECURSIVE MapOfFull(_, _, _)
MapOfFull(full, lo, hi) ==
    IF lo = hi
    THEN Chr(full[lo][1]) :> [ i \in 1..Len(full[lo][2]) |-> Chr(full[lo][2][i]) ]
    ELSE MapOfFull(full, lo, (lo + hi) \div 2)
         @@ MapOfFull(full, (lo + hi) \div 2 + 1, hi)

\* the characters a case conversion changes, each with its result
CaseMap(runs, full) ==
    MapOfFull(full, 1, Len(full)) @@ MapOfRuns(runs, 1, Len(runs))

UpperMap == CaseMap(UpperRuns, UpperFull)
LowerMap == CaseMap(LowerRuns, LowerFull)
TitleMap == CaseMap(TitleRuns, TitleFull)

\* the three case conversions of one character, as text
UpperChar(c) == IF c \in DOMAIN UpperMap THEN UpperMap[c] ELSE << c >>
LowerChar(c) == IF c \in DOMAIN LowerMap THEN LowerMap[c] ELSE << c >>
TitleChar(c) == IF c \in DOMAIN TitleMap THEN TitleMap[c] ELSE UpperChar(c)

RECURSIVE ConcatRange(_, _, _)
ConcatRange(ss, lo, hi) ==
    IF lo > hi THEN << >>
    ELSE IF lo = hi THEN ss[lo]
    ELSE ConcatRange(ss, lo, (lo + hi) \div 2)
         \o ConcatRange(ss, (lo + hi) \div 2 + 1, hi)

\* "".join(ss)
Concat(ss) == ConcatRange(ss, 1, Len(ss))

\* whether the capital sigma at position i of s is lower-cased to the final
\* sigma: the nearest character before it that is not case-ignorable is
\* cased, and the nearest such character after it, if any, is not
FinalSigma(s, i) ==
    LET before == { j \in 1..(i - 1) : ~IsCaseIgnorable(s[j]) }
        after == { j \in (i + 1)..Len(s) : ~IsCaseIgnorable(s[j]) }
    IN  /\ before # {}
        /\ IsCased(s[CHOOSE j \in before : \A k \in before : k <= j])
        /\ \/ after = {}
           \/ ~IsCased(s[CHOOSE j \in after : \A k \in after : j <= k])

\* the lower case of the character at position i of s
LowerAt(s, i) ==
    IF s[i] = Chr(931)
    THEN IF FinalSigma(s, i) THEN << Chr(962) >> ELSE << Chr(963) >>
    ELSE LowerChar(s[i])

\* str.upper()
Upper(s) == Concat([ i \in 1..Len(s) |-> UpperChar(s[i]) ])

\* str.lower()
Lower(s) == Concat([ i \in 1..Len(s) |-> LowerAt(s, i) ])

\* str.title(): a character is lower-cased when the character before it is
\* cased, title-cased otherwise
Title(s) ==
    Concat([ i \in 1..Len(s) |->
               IF i > 1 /\ IsCased(s[i - 1]) THEN LowerAt(s, i)
               ELSE TitleChar(s[i]) ])

\* str.strip()
Strip(s) ==
    LET keep == { i \in 1..Len(s) : ~IsSpace(s[i]) }
    IN  IF keep = {} THEN << >>
        ELSE LET lo == CHOOSE i \in keep : \A j \in keep : i <= j
                 hi == CHOOSE i \in keep : \A j \in keep : j <= i
             IN  SubSeq(s, lo, hi)

\* sep.join(parts)
RECURSIVE Join(_, _)
Join(sep, parts) ==
    IF parts = << >> THEN << >>
    ELSE IF Len(parts) = 1 THEN parts[1]
    ELSE parts[1] \o sep \o Join(sep, Tail(parts))

-----------------------------------------------------------------------------
(* clean_journal_title *)

\* \d{4}-\d{3}[\dXx] at position i of s
IssnAt(s, i) ==
    /\ i >= 1
    /\ i + 8 <= Len(s)
    /\ \A k \in { 0, 1, 2, 3, 5, 6, 7 } : IsDigit(s[i + k])
    /\ s[i + 4] = "-"
    /\ IsDigit(s[i + 8]) \/ s[i + 8] \in { "X", "x" }

\* the end of the run of whitespace that starts at i: the first position
\* at or after i that holds no whitespace
SpaceRunEnd(s, i) ==
    IF \E j \in i..Len(s) : ~IsSpace(s[j])
    THEN CHOOSE j \in i..Len(s) :
            /\ ~IsSpace(s[j])
            /\ \A k \in i..(j - 1) : IsSpace(s[k])
    ELSE Len(s) + 1

\* (\s+\d{4}-\d{3}[\dXx])* from position p on: the position after the last
\* repetition that matches
RECURSIVE IssnGroupEnd(_, _)
IssnGroupEnd(s, p) ==
    IF p <= Len(s) /\ IsSpace(s[p]) /\ IssnAt(s, SpaceRunEnd(s, p))
    THEN IssnGroupEnd(s, SpaceRunEnd(s, p) + 9)
    ELSE p

\* the position after the match of the whole pattern at i, 0 when the
\* pattern does not match at i
IssnMatchEnd(s, i) ==
    IF i <= Len(s) /\ IsSpace(s[i]) /\ IssnAt(s, SpaceRunEnd(s, i))
    THEN IssnGroupEnd(s, SpaceRunEnd(s, i) + 9)
    ELSE 0

\* re.sub(pattern, "", s) from position i on: leftmost matches, one scan
RECURSIVE RemoveIssn(_, _)
RemoveIssn(s, i) ==
    IF i > Len(s) THEN << >>
    ELSE IF IssnMatchEnd(s, i) > 0 THEN RemoveIssn(s, IssnMatchEnd(s, i))
    ELSE << s[i] >> \o RemoveIssn(s, i + 1)

clean_journal_title(raw_title) ==
    LET cleaned == Strip(RemoveIssn(raw_title, 1))
    IN  IF cleaned = Upper(cleaned) /\ Len(cleaned) > MinTitleCaseLen
        THEN Title(cleaned)
        ELSE cleaned

-----------------------------------------------------------------------------
(* Literals the script compares record text with *)

Lit_DOI == << "D", "O", "I" >>
Lit_journal == << "j", "o", "u", "r", "n", "a", "l" >>
Lit_conference == << "c", "o", "n", "f", "e", "r", "e", "n", "c", "e" >>
Lit_book == << "b", "o", "o", "k" >>
Lit_Piscataway == << "P", "i", "s", "c", "a", "t", "a", "w", "a", "y" >>
Lit_ieeexplore == << "i", "e", "e", "e", "x", "p", "l", "o", "r", "e" >>
Lit_springer == << "s", "p", "r", "i", "n", "g", "e", "r" >>
Lit_10_1109 == << "1", "0", ".", "1", "1", "0", "9" >>
Lit_10_23919 == << "1", "0", ".", "2", "3", "9", "1", "9" >>
Lit_10_1007 == << "1", "0", ".", "1", "0", "0", "7" >>
Lit_10_36244 == << "1", "0", ".", "3", "6", "2", "4", "4" >>
\* the token that stands for the character U+2013 of line 137
EnDash == "[U+2013]"
Lit_UnknownTitle ==
    << "U", "n", "k", "n", "o", "w", "n", " ", "T", "i", "t", "l", "e" >>

\* sub in s
Contains(s, sub) ==
    \E i \in 0..(Len(s) - Len(sub)) : SubSeq(s, i + 1, i + Len(sub)) = sub

\* html.escape on one character: the five special characters become
\* entities
EscapeToken(tok) ==
    CASE tok = "&"  -> "&amp;"
      [] tok = "<"  -> "&lt;"
      [] tok = ">"  -> "&gt;"
      [] tok = "\"" -> "&quot;"
      [] tok = "'"  -> "&#x27;"
      [] OTHER -> tok

\* html.escape(s)
Escape(s) == [ i \in 1..Len(s) |-> EscapeToken(s[i]) ]

-----------------------------------------------------------------------------
(* Field extractors *)

\* the first identifier whose source type label is "DOI", 0 when there is none
FirstDoiIdent(pub) ==
    LET idents == Get(pub, "identifiers", << >>)
        IsDoi(i) ==
            Get(Get(Get(idents[i], "source", << >>), "type", << >>), "label", << >>)
                = Lit_DOI
    IN  IF \E i \in 1..Len(idents) : IsDoi(i)
        THEN CHOOSE i \in 1..Len(idents) :
                IsDoi(i) /\ \A j \in 1..(i - 1) : ~IsDoi(j)
        ELSE 0

extract_doi(pub) ==
    IF FirstDoiIdent(pub) = 0 THEN << >>
    ELSE Get(Get(pub, "identifiers", << >>)[FirstDoiIdent(pub)], "realUrl", << >>)

ListPositionKey(a) == Get(a, "listPosition", MissingListPosition)

IsAuthorTyped(a) == Get(a, "authorTyped", FALSE)

\* [a for a in authorships if a.get("authorTyped", False)]
RECURSIVE AuthorTypedOnly(_)
AuthorTypedOnly(authorships) ==
    IF authorships = << >> THEN << >>
    ELSE IF IsAuthorTyped(Head(authorships))
    THEN << Head(authorships) >> \o AuthorTypedOnly(Tail(authorships))
    ELSE AuthorTypedOnly(Tail(authorships))

\* sorted(items, key=lambda a: a.get("listPosition", 999)): the sort is
\* stable, items with equal keys keep their order
SortedByListPosition(items) ==
    LET n == Len(items)
        Before(j, i) ==
            \/ ListPositionKey(items[j]) < ListPositionKey(items[i])
            \/ ListPositionKey(items[j]) = ListPositionKey(items[i]) /\ j < i
        Rank(i) == Cardinality({ j \in 1..n : Before(j, i) }) + 1
    IN  [ r \in 1..n |-> items[CHOOSE i \in 1..n : Rank(i) = r] ]

\* lines 74-77: the counted authorships, sorted by list position
SortedAuthorships(pub) ==
    SortedByListPosition(AuthorTypedOnly(Get(pub, "authorships", << >>)))

\* lines 81-92: one authorship's part of the author string
AuthorPart(a) ==
    LET given == Get(a, "givenName", << >>)
        family == Get(a, "familyName", << >>)
        initial == IF given # << >> THEN << given[1], "." >> ELSE << >>
        name == Strip(initial \o << " " >> \o family)
    IN  IF Get(Get(a, "author", << >>), "mtid", 0) = AUTHOR_MTID
        THEN << "<strong>" >> \o name \o << "</strong>" >>
        ELSE name

extract_authors(pub) ==
    LET authorships == SortedAuthorships(pub)
    IN  Join(<< ", " >>, [ i \in 1..Len(authorships) |-> AuthorPart(authorships[i]) ])

\* lines 113-123: the venue before volume, issue and pages are appended
VenueTitle(pub) ==
    LET book == Get(pub, "book", << >>)
        seeded == IF Truthy(book) THEN Get(book, "title", << >>) ELSE << >>
        journal == Get(pub, "journal", << >>)
    IN  IF Truthy(journal)
        THEN clean_journal_title(
                 Get(journal, "title", Get(journal, "label", seeded)))
        ELSE seeded

extract_venue(pub) ==
    LET volume == Get(pub, "volume", << >>)
        issue == Get(pub, "issue", << >>)
        first_page == Get(pub, "firstPage", << >>)
        last_page == Get(pub, "lastPage", << >>)
    IN  VenueTitle(pub)
        \o (IF volume # << >> THEN << ", vol. " >> \o volume ELSE << >>)
        \o (IF issue # << >> THEN << ", no. " >> \o issue ELSE << >>)
        \o (IF first_page # << >> /\ last_page # << >> /\ first_page # last_page
            THEN << ", pp. " >> \o first_page \o << EnDash >> \o last_page
            ELSE IF first_page # << >> /\ last_page # << >>
            THEN << ", p. " >> \o first_page
            ELSE << >>)

get_pub_type(pub) ==
    LET sub_label == Lower(Get(Get(pub, "subType", << >>), "nameEng", << >>))
        main_label == Lower(Get(Get(pub, "type", << >>), "label", << >>))
    IN  IF Contains(main_label, Lit_journal) \/ Truthy(Get(pub, "journal", << >>))
        THEN "journal"
        ELSE IF \/ Contains(sub_label, Lit_conference)
                \/ Get(pub, "conferencePublication", FALSE)
        THEN "conference"
        ELSE IF Contains(main_label, Lit_book)
        THEN IF Contains(sub_label, Lit_conference) THEN "conference" ELSE "journal"
        ELSE "conference"

\* lines 179-184: the first identifier whose URL names a publisher
RECURSIVE PublisherOfIdents(_)
PublisherOfIdents(idents) ==
    IF idents = << >> THEN "none"
    ELSE LET url == Get(Head(idents), "realUrl", << >>)
         IN  IF Contains(url, Lit_ieeexplore) THEN "IEEE"
             ELSE IF Contains(url, Lit_springer) THEN "Springer"
             ELSE PublisherOfIdents(Tail(idents))

get_publisher(pub) ==
    LET book == Get(pub, "book", << >>)
        published_at == IF Truthy(book) THEN Get(book, "publishedAt", << >>) ELSE << >>
        city_label == IF published_at # << >>
                      THEN Get(published_at[1], "label", << >>) ELSE << >>
        by_ident == PublisherOfIdents(Get(pub, "identifiers", << >>))
        doi == extract_doi(pub)
    IN  IF Contains(city_label, Lit_Piscataway) THEN "IEEE"
        ELSE IF by_ident # "none" THEN by_ident
        ELSE IF Contains(doi, Lit_10_1109) \/ Contains(doi, Lit_10_23919) THEN "IEEE"
        ELSE IF Contains(doi, Lit_10_1007) THEN "Springer"
        ELSE IF Contains(doi, Lit_10_36244) THEN ""
        ELSE ""

-----------------------------------------------------------------------------
(* build_html *)

\* line 210: the base indentation, 12 spaces
I == "            "

\* markup of lines 214, 232 and 237
YearLabelOpen == "    <div class=\"year-label\">"
PubTitleOpen == "        <div class=\"pub-title\">"
LinkOpen == "<a href=\""
LinkMid == "\" target=\"_blank\" rel=\"noopener\">"

PublishedYear(pub) == Get(pub, "publishedYear", 0)

\* the keys of by_year: the years of the records whose year is not falsy
YearKeys(pubs) == { PublishedYear(pubs[i]) : i \in 1..Len(pubs) } \ { 0 }

\* SortedDescending without reverse=True
RECURSIVE SortedAscending(_)
SortedAscending(years) ==
    IF years = {} THEN << >>
    ELSE LET low == CHOOSE y \in years : \A z \in years : y <= z
         IN  << low >> \o SortedAscending(years \ { low })

\* sorted(by_year.keys(), reverse=True)
RECURSIVE SortedDescending(_)
SortedDescending(years) ==
    IF years = {} THEN << >>
    ELSE LET top == CHOOSE y \in years : \A z \in years : z <= y
         IN  << top >> \o SortedDescending(years \ { top })

\* by_year[year]: the records of the year, in the order of the list
RECURSIVE ByYear(_, _)
ByYear(pubs, year) ==
    IF pubs = << >> THEN << >>
    ELSE IF PublishedYear(Head(pubs)) = year
    THEN << Head(pubs) >> \o ByYear(Tail(pubs), year)
    ELSE ByYear(Tail(pubs), year)

\* lines 231-234
TitleHtml(pub) ==
    LET title == Escape(Get(pub, "title", Lit_UnknownTitle))
        doi_url == extract_doi(pub)
    IN  IF doi_url # << >>
        THEN << LinkOpen >> \o doi_url \o << LinkMid >> \o title \o << "</a>" >>
        ELSE title

\* lines 248-256
MetaParts(pub) ==
    LET is_journal == get_pub_type(pub) = "journal"
        badge_class == IF is_journal THEN "badge-journal" ELSE "badge-conference"
        badge_label == IF is_journal THEN "Journal" ELSE "Conference"
        publisher == get_publisher(pub)
        citing_total == Get(pub, "citingPubCount", 0)
    IN  << << "<span class=\"pub-badge ", badge_class, "\">", badge_label, "</span>" >> >>
        \o (IF publisher # "" THEN << << "<span>", publisher, "</span>" >> >> ELSE << >>)
        \o (IF citing_total > 0
            THEN << << "<span class=\"badge-citations\">Cited by ",
                       ToString(citing_total), "</span>" >> >>
            ELSE << >>)

\* lines 236-263: the lines of one record
PubItemLines(pub) ==
    LET meta_parts == MetaParts(pub)
    IN  << << I, "    <div class=\"pub-item\">" >>,
           << I, PubTitleOpen >>,
           << I, "            " >> \o TitleHtml(pub),
           << I, "        </div>" >>,
           << I, "        <div class=\"pub-authors\">" >> \o extract_authors(pub)
               \o << "</div>" >>,
           << I, "        <div class=\"pub-venue\">" >> \o Escape(extract_venue(pub))
               \o << "</div>" >>,
           << I, "        <div class=\"pub-meta\">" >> >>
        \o [ i \in 1..Len(meta_parts) |-> << I, "            " >> \o meta_parts[i] ]
        \o << << I, "        </div>" >>,
              << I, "    </div>" >>,
              << >> >>

\* lines 213-266: the lines of one year group
YearGroupLines(pubs, year) ==
    LET of_year == ByYear(pubs, year)
    IN  << << I, "<div class=\"year-group\">" >>,
           << I, YearLabelOpen, ToString(year), "</div>" >>,
           << >> >>
        \o Concat([ i \in 1..Len(of_year) |-> PubItemLines(of_year[i]) ])
        \o << << I, "</div>" >>,
              << >> >>

build_html(pubs) ==
    LET years == SortedDescending(YearKeys(pubs))
        html_parts == Concat([ i \in 1..Len(years) |-> YearGroupLines(pubs, years[i]) ])
    IN  Join(<< "\n" >>, html_parts)

-----------------------------------------------------------------------------
(* update_index *)

\* the escapes of a replacement template that stand for one character
TemplateEscapes == { "a", "b", "f", "n", "r", "t", "v" }

EscapedChar(c) ==
    CASE c = "a" -> Chr(7)
      [] c = "b" -> Chr(8)
      [] c = "t" -> Chr(9)
      [] c = "n" -> Chr(10)
      [] c = "v" -> Chr(11)
      [] c = "f" -> Chr(12)
      [] c = "r" -> Chr(13)

\* DIGITS, OCTDIGITS and ASCIILETTERS of re
AsciiDigits == { "0", "1", "2", "3", "4", "5", "6", "7", "8", "9" }
OctDigits == { "0", "1", "2", "3", "4", "5", "6", "7" }
AsciiLetters == { Chr(c) : c \in (65..90) \cup (97..122) }

DigitValue(c) == CHOOSE v \in 0..9 : ToString(v) = c

\* int(digits, 8)
RECURSIVE OctalValue(_)
OctalValue(digits) ==
    IF digits = << >> THEN 0
    ELSE 8 * OctalValue(SubSeq(digits, 1, Len(digits) - 1))
         + DigitValue(digits[Len(digits)])

\* the whitespace int() accepts around a number
IntSpaces == Spaces \ { Chr(c) : c \in 28..31 }

\* int(name) = 0: whitespace around, one sign, then digits of value 0 with
\* single underscores between them
IsZeroInt(name) ==
    LET keep == { p \in 1..Len(name) : name[p] \notin IntSpaces }
        lo == CHOOSE p \in keep : \A q \in keep : p <= q
        hi == CHOOSE p \in keep : \A q \in keep : q <= p
        first == IF name[lo] \in { "+", "-" } THEN lo + 1 ELSE lo
    IN  /\ keep # {}
        /\ first <= hi
        /\ \A p \in first..hi : name[p] \in ZeroDigits \/ name[p] = "_"
        /\ name[first] # "_"
        /\ name[hi] # "_"
        /\ \A p \in first..(hi - 1) : ~(name[p] = "_" /\ name[p + 1] = "_")

\* re's expansion of the replacement template t from position i on, for one
\* match: [ok |-> FALSE] where the template is rejected with an exception.
\* The pattern has no groups, so group 0 is the only group there is: a
\* \g<name> whose name is not an integer 0, and a backslash before digits
\* that are no octal escape, are rejected.  A backslash before a character
\* that is neither an ASCII letter nor an ASCII digit stays, with the
\* character.
RECURSIVE ExpandTemplate(_, _, _)
ExpandTemplate(t, i, match) ==
    IF \A p \in i..Len(t) : t[p] # "\\"
    THEN [ ok |-> TRUE, text |-> SubSeq(t, i, Len(t)) ]
    ELSE
    LET b == CHOOSE p \in i..Len(t) : t[p] = "\\" /\ \A q \in i..(p - 1) : t[q] # "\\"
        Then(emit, next) ==
            LET rest == ExpandTemplate(t, next, match)
            IN  IF rest.ok
                THEN [ ok |-> TRUE, text |-> SubSeq(t, i, b - 1) \o emit \o rest.text ]
                ELSE rest
        Bad == [ ok |-> FALSE, text |-> << >> ]
        IsOct(p) == p <= Len(t) /\ t[p] \in OctDigits
        \* \0, \0d, \0dd: the digits after the backslash
        zero_len == IF IsOct(b + 2) THEN (IF IsOct(b + 3) THEN 3 ELSE 2) ELSE 1
        \* \g<name>: the position of the ">" that ends the name
        close == CHOOSE p \in (b + 3)..Len(t) :
                    t[p] = ">" /\ \A q \in (b + 3)..(p - 1) : t[q] # ">"
    IN  IF b = Len(t) THEN Bad
        ELSE IF t[b + 1] = "\\" THEN Then(<< "\\" >>, b + 2)
        ELSE IF t[b + 1] = "g"
        THEN IF /\ b + 2 <= Len(t)
                /\ t[b + 2] = "<"
                /\ \E p \in (b + 3)..Len(t) : t[p] = ">"
                /\ IsZeroInt(SubSeq(t, b + 3, close - 1))
             THEN Then(match, close + 1)
             ELSE Bad
        ELSE IF t[b + 1] \in TemplateEscapes THEN Then(<< EscapedChar(t[b + 1]) >>, b + 2)
        ELSE IF t[b + 1] = "0"
        THEN Then(<< Chr(OctalValue(SubSeq(t, b + 1, b + zero_len)) % 256) >>,
                  b + 1 + zero_len)
        ELSE IF t[b + 1] \in AsciiDigits
        THEN IF IsOct(b + 1) /\ IsOct(b + 2) /\ IsOct(b + 3)
                /\ OctalValue(SubSeq(t, b + 1, b + 3)) <= 255
             THEN Then(<< Chr(OctalValue(SubSeq(t, b + 1, b + 3))) >>, b + 4)
             ELSE Bad
        ELSE IF t[b + 1] \in AsciiLetters THEN Bad
        ELSE Then(<< "\\", t[b + 1] >>, b + 2)

\* the first position at or after i where the text pat starts in content,
\* 0 when there is none
FirstAt(content, pat, i) ==
    LET StartsAt(p) == SubSeq(content, p, p + Len(pat) - 1) = pat
        last == Len(content) - Len(pat) + 1
    IN  IF \E p \in i..last : StartsAt(p)
        THEN CHOOSE p \in i..last : StartsAt(p) /\ \A q \in i..(p - 1) : ~StartsAt(q)
        ELSE 0

\* the leftmost match of MARKER_START .*? MARKER_END at or after i: the
\* first start marker and the first end marker after it; end is the
\* position of the last character of the match
MatchFrom(content, i) ==
    LET s == FirstAt(content, MARKER_START, i)
        e == IF s = 0 THEN 0 ELSE FirstAt(content, MARKER_END, s + Len(MARKER_START))
    IN  [ found |-> s # 0 /\ e # 0, start |-> s, end |-> e + Len(MARKER_END) - 1 ]

\* re.subn(pattern, replacement, content, flags=re.DOTALL) from position i on:
\* every match is replaced, none is skipped
RECURSIVE Subn(_, _, _)
Subn(content, replacement, i) ==
    LET m == MatchFrom(content, i)
    IN  IF ~m.found
        THEN [ text |-> SubSeq(content, i, Len(content)), count |-> 0 ]
        ELSE LET rest == Subn(content, replacement, m.end + 1)
                 expanded == ExpandTemplate(replacement, 1,
                                            SubSeq(content, m.start, m.end))
             IN  [ text |-> SubSeq(content, i, m.start - 1) \o expanded.text \o rest.text,
                   count |-> rest.count + 1 ]

\* lines 277-279
Replacement(html) ==
    MARKER_START \o << "\n" >> \o html \o << "\n", "        " >> \o MARKER_END

\* lines 273-274: f.read() of a file opened in text mode, which gives every
\* line ending of the file, "\r\n" or "\r", as "\n"
read(file) ==
    LET n == Len(file)
        marked == [ p \in 1..n |->
                      IF file[p] = "\r"
                      THEN IF p < n /\ file[p + 1] = "\n"
                           THEN [ keep |-> FALSE, tok |-> "\n" ]
                           ELSE [ keep |-> TRUE, tok |-> "\n" ]
                      ELSE [ keep |-> TRUE, tok |-> file[p] ] ]
        IsKept(m) == m.keep
        kept == SelectSeq(marked, IsKept)
    IN  [ p \in 1..Len(kept) |-> kept[p].tok ]

\* the surrogates: the characters UTF-8 neither encodes nor decodes
Surrogates == { Chr(c) : c \in 55296..57343 }

HasSurrogate(text) == \E p \in 1..Len(text) : text[p] \in Surrogates

\* update_index on a file that holds content: what it returns ("True",
\* "False", or "raised" when it ends with an exception), the count it
\* reports (0 when it reports none), whether it opened the file for
\* writing, and what the file holds afterwards.  f.read() raises on a
\* file that is not UTF-8; re.subn raises on a replacement it rejects as a
\* template, before it searches; open(.., "w") empties the file, and
\* f.write then raises on a text UTF-8 cannot encode.
update_index(content, html) ==
    LET replacement == Replacement(html)
        result == Subn(read(content), replacement, 1)
    IN  IF HasSurrogate(content)
        THEN [ returned |-> "raised", count |-> 0, written |-> FALSE, content |-> content ]
        ELSE IF ~ExpandTemplate(replacement, 1, << >>).ok
        THEN [ returned |-> "raised", count |-> 0, written |-> FALSE, content |-> content ]
        ELSE IF result.count = 0
        THEN [ returned |-> "False", count |-> 0, written |-> FALSE, content |-> content ]
        ELSE IF HasSurrogate(result.text)
        THEN [ returned |-> "raised", count |-> 0, written |-> TRUE, content |-> << >> ]
        ELSE [ returned |-> "True", count |-> result.count, written |-> TRUE,
               content |-> result.text ]

-----------------------------------------------------------------------------
(* fetch_publications and main *)

\* lines 40-56: one turn of the loop of fetch_publications, on the response
\* to the request for page pg.  A response is [kind |-> "URLError"] when
\* urlopen raises urllib.error.URLError, [kind |-> "json", data |-> d] when
\* the body parses to the dictionary d, and [kind |-> "uncaught",
\* exception |-> e] when the lines 41-47 raise an exception e that is no
\* URLError: the read of the body times out, the body is not UTF-8 or not
\* JSON, or it is JSON but no object.  Nothing catches e: raised is TRUE
\* and the process ends.
FetchStep(pubs, pg, resp) ==
    IF resp.kind = "uncaught"
    THEN [ publications |-> pubs, page |-> pg, break |-> FALSE, raised |-> TRUE ]
    ELSE IF resp.kind = "URLError"
    THEN [ publications |-> pubs, page |-> pg, break |-> TRUE, raised |-> FALSE ]
    ELSE LET content == Get(resp.data, "content", << >>)
             paging == Get(resp.data, "paging", << >>)
         IN  IF content = << >>
             THEN [ publications |-> pubs, page |-> pg, break |-> TRUE, raised |-> FALSE ]
             ELSE IF Get(paging, "last", TRUE)
             THEN [ publications |-> pubs \o content, page |-> pg, break |-> TRUE,
                    raised |-> FALSE ]
             ELSE [ publications |-> pubs \o content, page |-> pg + 1, break |-> FALSE,
                    raised |-> FALSE ]

\* lines 299-301: what main does with the records fetched
MainAfterFetch(pubs) == IF pubs = << >> THEN "return" ELSE "process"

\* lines 309-313: the status main ends with after update_index
ExitAfterUpdate(returned) == IF returned = "True" THEN 0 ELSE 1

-----------------------------------------------------------------------------
(* The service and the files of the runs *)

MaxPages == 2

PubPlain ==
    [ title |-> << "a" >>, publishedYear |-> 2023,
      authorships |-> << [ authorTyped |-> TRUE, familyName |-> << "K" >>,
                           listPosition |-> 1 ] >> ]
PubLatexTitle == [ title |-> << "\\", "p", "i" >>, publishedYear |-> 2022 ]
PubNoYear == [ title |-> << "c" >> ]
\* a title json.loads gives for the body "\ud800"
PubSurrogateTitle == [ title |-> << Chr(55296) >>, publishedYear |-> 2021 ]

PageContents ==
    { << PubPlain >>, << PubLatexTitle >>, << PubNoYear, PubPlain >>,
      << PubSurrogateTitle >> }

\* what the service can answer to the request for page pg; it holds
\* MaxPages pages at most, so page MaxPages is never followed by another
ServiceResponses(pg) ==
    { [ kind |-> "URLError" ],
      [ kind |-> "uncaught", exception |-> "TimeoutError" ],
      [ kind |-> "uncaught", exception |-> "JSONDecodeError" ],
      [ kind |-> "json", data |-> << >> ],
      [ kind |-> "json", data |-> [ content |-> << >>, paging |-> [ last |-> FALSE ] ] ] }
    \cup { [ kind |-> "json", data |-> [ content |-> c ] ] : c \in PageContents }
    \cup { [ kind |-> "json", data |-> [ content |-> c, paging |-> [ last |-> l ] ] ] :
             c \in PageContents, l \in { b \in BOOLEAN : b \/ pg < MaxPages } }

IndexSamples ==
    { << >>,
      << "x", "\n" >>,
      MARKER_START,
      MARKER_END \o << "x" >> \o MARKER_START,
      << "h" >> \o MARKER_START \o << "o" >> \o MARKER_END \o << "t" >>,
      MARKER_START \o << "o" >> \o MARKER_END \o << "x" >> \o MARKER_START
          \o MARKER_END }

\* the number of start-marker ... end-marker spans of a file
MarkerPairs(content) == Subn(content, << >>, 1).count

PureIdle == input = << >> /\ output = << >>

-----------------------------------------------------------------------------
(* One run of main() *)

Init ==
    /\ pc = "fetch"
    /\ page = 1
    /\ publications = << >>
    /\ requests = << >>
    /\ index \in IndexSamples
    /\ index_reads = 0
    /\ index_writes = 0
    /\ publications_html = << >>
    /\ count = 0
    /\ success = "none"
    /\ exit_code = -1
    /\ history = << index >>
    /\ PureIdle

\* lines 35-56: page `page` is requested and the response handled; an
\* exception nothing catches ends the process with status 1
FetchPage ==
    /\ pc = "fetch"
    /\ \E resp \in ServiceResponses(page) :
        LET step == FetchStep(publications, page, resp)
        IN  /\ requests' = Append(requests, [ page |-> page, response |-> resp ])
            /\ publications' = step.publications
            /\ page' = step.page
            /\ pc' = IF step.raised THEN "exited"
                     ELSE IF step.break THEN "fetched" ELSE "fetch"
            /\ exit_code' = IF step.raised THEN 1 ELSE exit_code
    /\ UNCHANGED << index, index_reads, index_writes, publications_html, count,
                    success, history, input, output >>

\* lines 299-301: nothing was fetched, main returns
NoPublications ==
    /\ pc = "fetched"
    /\ MainAfterFetch(publications) = "return"
    /\ pc' = "exited"
    /\ exit_code' = 0
    /\ UNCHANGED << page, publications, requests, index, index_reads, index_writes,
                    publications_html, count, success, history, input, output >>

\* lines 303-304
BuildHtml ==
    /\ pc = "fetched"
    /\ MainAfterFetch(publications) = "process"
    /\ publications_html' = build_html(publications)
    /\ pc' = "update"
    /\ UNCHANGED << page, publications, requests, index, index_reads, index_writes,
                    count, success, exit_code, history, input, output >>

\* lines 306-313: update_index and the end of main; an exception that
\* update_index does not catch ends the process with status 1
UpdateIndex ==
    /\ pc = "update"
    /\ LET r == update_index(index, publications_html)
       IN  /\ index_reads' = index_reads + 1
           /\ index_writes' = IF r.written THEN index_writes + 1 ELSE index_writes
           /\ index' = r.content
           /\ count' = r.count
           /\ success' = r.returned
           /\ exit_code' = ExitAfterUpdate(r.returned)
           /\ history' = Append(history, r.content)
    /\ pc' = "exited"
    /\ UNCHANGED << page, publications, requests, publications_html, input, output >>

Next == FetchPage \/ NoPublications \/ BuildHtml \/ UpdateIndex

Spec == Init /\ [][Next]_vars

-----------------------------------------------------------------------------
(* Claims about one run of main() *)

\* the records of the pages 1..n, in the order they were fetched
RECURSIVE FetchedUpTo(_)
FetchedUpTo(n) ==
    IF n = 0 THEN << >>
    ELSE FetchedUpTo(n - 1) \o Get(requests[n].response.data, "content", << >>)

\* C1: one invocation of update_index replaces at most one marker-delimited
\* span, whatever the file holds: the count of re.subn is never above 1.
C1_AtMostOneReplacement == count <= 1

\* C2: when index.html holds no start-marker ... end-marker pair,
\* update_index returns False without writing the file, the file is
\* unchanged, and main exits with a non-zero status.
C2_NoMarkersReportsFailure ==
    (pc = "exited" /\ index_reads > 0 /\ MarkerPairs(history[1]) = 0)
        => /\ success = "False"
           /\ index_writes = 0
           /\ index = history[1]
           /\ exit_code # 0

\* On a file without a marker pair update_index never writes and never
\* returns True, and main ends with status 1; it returns False unless
\* re.subn rejects the fragment as a replacement template.
NoMarkersNeverWrites ==
    (pc = "exited" /\ index_reads > 0 /\ MarkerPairs(history[1]) = 0)
        => /\ success \in { "False", "raised" }
           /\ success = "raised" <=> ~ExpandTemplate(Replacement(publications_html), 1, << >>).ok
           /\ index_writes = 0
           /\ index = history[1]
           /\ exit_code = 1

\* what C4 says of the requests whose response is one of kinds
PaginationEndsAt(kinds) ==
    \A k \in 1..Len(requests) :
        requests[k].response.kind \in kinds
            => /\ k = Len(requests)
               /\ \A i \in 1..k : requests[i].page = i
               /\ pc \in { "fetched", "update", "exited" }
               /\ publications = FetchedUpTo(k - 1)
               /\ exit_code # 0 /\ exit_code # -1
                    => index_reads = 1 /\ success \in { "False", "raised" }

\* C4: a fetch error on page k ends the pagination: page k is not
\* requested again and no later page is requested, every page before it was
\* requested once and in order, the run goes on with exactly the records of
\* the pages 1..k-1 in fetch order, and the process does not end with a
\* failure status unless update_index was reached and did not return True.
C4_FetchErrorEndsPagination == PaginationEndsAt({ "URLError", "uncaught" })

\* What C4 says holds of the fetch errors that are a URLError.
URLErrorEndsPagination == PaginationEndsAt({ "URLError" })

\* C5: when the fetch yields no records, the first page being empty or
\* failing, the run is a no-op: index.html is neither read nor written,
\* main goes nowhere but to its return, and the process ends with status 0.
C5_EmptyFetchIsNoOp ==
    (pc # "fetch" /\ publications = << >>)
        => /\ pc \in { "fetched", "exited" }
           /\ index_reads = 0
           /\ index_writes = 0
           /\ index = history[1]
           /\ Len(history) = 1
           /\ publications_html = << >>
           /\ pc = "exited" => exit_code = 0
           /\ pc = "fetched" => exit_code = -1

\* When no records were fetched index.html is neither read nor written,
\* and the process ends with status 0 unless the fetch of the first page
\* raised an exception that is no URLError, and with status 1 then.
EmptyFetchLeavesIndexAlone ==
    (pc # "fetch" /\ publications = << >>)
        => /\ pc \in { "fetched", "exited" }
           /\ index_reads = 0
           /\ index_writes = 0
           /\ index = history[1]
           /\ Len(history) = 1
           /\ publications_html = << >>
           /\ pc = "exited"
                => exit_code = IF requests[Len(requests)].response.kind = "uncaught"
                               THEN 1 ELSE 0
           /\ pc = "fetched" => exit_code = -1

-----------------------------------------------------------------------------
(* update_index run again on its own result, with the same fragment *)

MaxRuns == 2
MaxPatchPubs == 2

PubMarkerAuthor ==
    [ title |-> << "b" >>, publishedYear |-> 2023,
      authorships |-> << [ authorTyped |-> TRUE, familyName |-> MARKER_END ] >> ]

PatchPubs ==
    { PubPlain, PubLatexTitle, PubNoYear, PubMarkerAuthor, PubSurrogateTitle }

\* the sequences over S of length 1..n
SeqsUpTo(S, n) == UNION { [ 1..k -> S ] : k \in 1..n }

InitPatch ==
    /\ pc = "fetched"
    /\ page = 1
    /\ publications \in SeqsUpTo(PatchPubs, MaxPatchPubs)
    /\ requests = << >>
    /\ index \in IndexSamples
    /\ index_reads = 0
    /\ index_writes = 0
    /\ publications_html = << >>
    /\ count = 0
    /\ success = "none"
    /\ exit_code = -1
    /\ history = << index >>
    /\ PureIdle

\* lines 271-292: update_index(publications_html), called on its own
Patch ==
    /\ pc = "update"
    /\ Len(history) <= MaxRuns
    /\ LET r == update_index(index, publications_html)
       IN  /\ index_reads' = index_reads + 1
           /\ index_writes' = IF r.written THEN index_writes + 1 ELSE index_writes
           /\ index' = r.content
           /\ count' = r.count
           /\ success' = r.returned
           /\ history' = Append(history, r.content)
    /\ UNCHANGED << pc, page, publications, requests, publications_html, exit_code,
                    input, output >>

NextPatch == BuildHtml \/ Patch

SpecPatch == InitPatch /\ [][NextPatch]_vars

\* the positions of content where the text pat starts
Occurrences(content, pat) ==
    { p \in 1..(Len(content) - Len(pat) + 1) :
        SubSeq(content, p, p + Len(pat) - 1) = pat }

\* a file with one start marker and one end marker, the start marker first
ExactlyOnePair(content) ==
    /\ Cardinality(Occurrences(content, MARKER_START)) = 1
    /\ Cardinality(Occurrences(content, MARKER_END)) = 1
    /\ MarkerPairs(content) = 1

\* C3: for a file with exactly one marker pair and a fragment of build_html,
\* the file after a second update_index with the same fragment is the file
\* after the first.
C3_PatchIdempotent ==
    (Len(history) >= 3 /\ ExactlyOnePair(history[1])) => history[3] = history[2]

-----------------------------------------------------------------------------
(* The functions applied to bounded inputs *)

PipelineIdle ==
    /\ pc = "idle"
    /\ page = 0
    /\ publications = << >>
    /\ requests = << >>
    /\ index = << >>
    /\ index_reads = 0
    /\ index_writes = 0
    /\ publications_html = << >>
    /\ count = 0
    /\ success = "none"
    /\ exit_code = -1
    /\ history = << >>

pipeline == << pc, page, publications, requests, index, index_reads, index_writes,
               publications_html, count, success, exit_code, history >>

\* a dictionary with the key k when present holds
Opt(present, k, v) == IF present THEN k :> v ELSE << >>

(* build_html *)

MaxPubs == 4

RenderPubs ==
    { [ title |-> << "a" >>, publishedYear |-> 2021,
        authorships |-> << [ authorTyped |-> TRUE, givenName |-> << "J" >>,
                             familyName |-> << "<", "i", ">" >>,
                             author |-> [ mtid |-> AUTHOR_MTID ] ] >> ],
      [ title |-> << "b" >>, publishedYear |-> 2023,
        identifiers |-> << [ source |-> [ type |-> [ label |-> Lit_DOI ] ],
                             realUrl |-> << "u", "\"", "x" >> ] >> ],
      [ title |-> << "c" >>, publishedYear |-> 2021,
        journal |-> [ title |-> << "J", "&", "K" >> ], citingPubCount |-> 3 ],
      [ title |-> << "d" >>, publishedYear |-> 2022 ],
      [ title |-> << "e" >>, publishedYear |-> 0 ] }

InitHtml ==
    /\ PipelineIdle
    /\ input \in SeqsUpTo(RenderPubs, MaxPubs) \cup { << >> }
    /\ output = << >>

Render ==
    /\ output = << >>
    /\ output' = << build_html(input) >>
    /\ UNCHANGED << pipeline, input >>

SpecHtml == InitHtml /\ [][Render]_vars

\* the elements of a finite set of numbers, ascending
Ascending(S) ==
    [ r \in 1..Cardinality(S) |->
        CHOOSE p \in S : Cardinality({ q \in S : q < p }) = r - 1 ]

\* the title a fragment shows in the pub-title block that opens at p
RenderedTitle(frag, p) ==
    IF frag[p + 4] = LinkOpen
    THEN frag[(CHOOSE q \in (p + 4)..Len(frag) :
                  frag[q] = LinkMid /\ \A k \in (p + 4)..(q - 1) : frag[k] # LinkMid) + 1]
    ELSE frag[p + 4]

\* C6: build_html emits one year group per distinct non-zero year, the
\* groups in strictly descending order of the year, and in each group the
\* records of that year in the order they have in the input list.
C6_GroupsDescendingAndStable ==
    output # << >> =>
        LET frag == output[1]
            labels == Ascending({ p \in 1..Len(frag) : frag[p] = YearLabelOpen })
            titles == { p \in 1..Len(frag) : frag[p] = PubTitleOpen }
            years == { Get(input[i], "publishedYear", 0) : i \in 1..Len(input) } \ { 0 }
            YearOf(k) == CHOOSE y \in years : ToString(y) = frag[labels[k] + 1]
            GroupEnd(k) == IF k < Len(labels) THEN labels[k + 1] ELSE Len(frag) + 1
            Shown(k) ==
                LET at == Ascending({ p \in titles : labels[k] < p /\ p < GroupEnd(k) })
                IN  [ n \in 1..Len(at) |-> RenderedTitle(frag, at[n]) ]
            Expected(k) ==
                LET of_year == SelectSeq(input,
                                   LAMBDA pub : Get(pub, "publishedYear", 0) = YearOf(k))
                IN  [ n \in 1..Len(of_year) |-> of_year[n].title[1] ]
        IN  /\ Len(labels) = Cardinality(years)
            /\ \A k \in 1..Len(labels) : \E y \in years : ToString(y) = frag[labels[k] + 1]
            /\ \A j, k \in 1..Len(labels) : j < k => YearOf(j) > YearOf(k)
            /\ \A p \in titles : labels # << >> /\ labels[1] < p
            /\ \A k \in 1..Len(labels) : Shown(k) = Expected(k)

\* C6's case: the years 2021, 2023, 2021, 2022 of the specification's
\* example, rendered.
C6_Witness ==
    /\ output # << >>
    /\ Len(input) = 4
    /\ [ i \in 1..4 |-> input[i].publishedYear ] = << 2021, 2023, 2021, 2022 >>
    /\ input[1].title # input[3].title

\* the characters html.escape replaces
RawSpecial == { "<", ">", "&", "\"", "'" }

\* C9: every piece of record text in the fragment is HTML-escaped: no
\* token of the fragment is a raw special character; the only markup is
\* the markup the renderer writes.
C9_RecordTextEscaped ==
    output # << >> => \A p \in 1..Len(output[1]) : output[1][p] \notin RawSpecial

(* extract_authors *)

MaxAuthors == 3

\* the family name of the i-th authorship of an input, one letter each
AuthorNames == << "a", "b", "c", "d", "e" >>

\* authorTyped: TRUE, FALSE or absent; listPosition: a number, or absent (0)
TypedOptions == { "yes", "no", "absent" }
PositionOptions == { 0, 1, 2, 1000 }

Authorship(i, typed, position) ==
    [ familyName |-> << AuthorNames[i] >> ]
        @@ Opt(typed # "absent", "authorTyped", typed = "yes")
        @@ Opt(position # 0, "listPosition", position)

AuthorInputs(n) ==
    { [ authorships |-> [ i \in 1..n |-> Authorship(i, ty[i], po[i]) ] ] :
        ty \in [ 1..n -> TypedOptions ], po \in [ 1..n -> PositionOptions ] }

InitAuthors ==
    /\ PipelineIdle
    /\ input \in UNION { AuthorInputs(n) : n \in 0..MaxAuthors }
    /\ output = << >>

ExtractAuthors ==
    /\ output = << >>
    /\ output' = << extract_authors(input) >>
    /\ UNCHANGED << pipeline, input >>

SpecAuthors == InitAuthors /\ [][ExtractAuthors]_vars

\* C7: in the string of extract_authors the counted authors stand in
\* non-decreasing order of list position, and every counted author without
\* a list position stands after every counted author that has one.
C7_PositionedBeforeUnpositioned ==
    output # << >> =>
        LET s == output[1]
            a == input.authorships
            counted == { i \in 1..Len(a) : Get(a[i], "authorTyped", FALSE) }
            HasPosition(i) == "listPosition" \in DOMAIN a[i]
            At(i) == CHOOSE p \in 1..Len(s) : s[p] = AuthorNames[i]
        IN  \A i, j \in counted :
                /\ (HasPosition(i) /\ HasPosition(j)
                        /\ a[i].listPosition < a[j].listPosition) => At(i) < At(j)
                /\ (HasPosition(i) /\ ~HasPosition(j)) => At(i) < At(j)

(* extract_venue *)

BookTitle == << "I", "C", "C", "C", " ", "2", "0", "2", "0" >>
JournalTitle ==
    << "A", "C", "T", "A", " ", "1", "7", "8", "5", "-", "8", "8", "6", "0" >>
JournalLabel == << "S", "e", "n", "s", "o", "r", "s" >>

BookOptions == { << >>, [ mtid |-> 3 ], [ title |-> BookTitle ] }
JournalOptions ==
    { << >>, [ mtid |-> 7 ], [ title |-> JournalTitle ], [ label |-> JournalLabel ],
      [ title |-> JournalTitle, label |-> JournalLabel ] }
PageOptions ==
    { << >>, [ firstPage |-> << "7" >> ],
      [ firstPage |-> << "7" >>, lastPage |-> << "7" >> ],
      [ firstPage |-> << "1", "0", "0" >>, lastPage |-> << "1", "1", "0" >> ] }

InitVenue ==
    /\ PipelineIdle
    /\ \E book \in BookOptions, journal \in JournalOptions, pages \in PageOptions,
          has_book, has_journal, has_volume, has_issue \in BOOLEAN :
           input = Opt(has_book, "book", book)
                @@ Opt(has_journal, "journal", journal)
                @@ Opt(has_volume, "volume", << "2", "1" >>)
                @@ Opt(has_issue, "issue", << "4" >>)
                @@ pages
    /\ output = << >>

ExtractVenue ==
    /\ output = << >>
    /\ output' = << extract_venue(input) >>
    /\ UNCHANGED << pipeline, input >>

SpecVenue == InitVenue /\ [][ExtractVenue]_vars

IsPrefix(p, s) == Len(p) <= Len(s) /\ SubSeq(s, 1, Len(p)) = p

\* C8: journal-title cleanup is never applied to a parent-book title: when
\* the record has a book title and its journal entry gives neither a title
\* nor a label, the venue starts with the book title as it is.
C8_BookTitleNotCleaned ==
    output # << >> =>
        LET book == Get(input, "book", << >>)
            journal == Get(input, "journal", << >>)
        IN  ("title" \in DOMAIN book /\ DOMAIN journal \cap { "title", "label" } = {})
                => IsPrefix(book.title, output[1])

(* clean_journal_title *)

MaxChunks == 4
MaxApplications == 2

TitleChunks ==
    { << "A" >>,
      << "S", "E", "N", "S", "O", "R", "S" >>,
      << " ", "1", "2", "3", "4", "-", "5", "6", "7" >>,
      << " ", "0", "0", "0", "0", "-", "0", "0", "0", "0" >>,
      << "8" >> }

InitClean ==
    /\ PipelineIdle
    /\ \E chunks \in SeqsUpTo(TitleChunks, MaxChunks) \cup { << >> } :
           input = Concat(chunks)
    /\ output = << >>

\* clean_journal_title applied to the title, then to its own result
Clean ==
    /\ Len(output) < MaxApplications
    /\ output' = Append(output, clean_journal_title(
                            IF output = << >> THEN input ELSE output[Len(output)]))
    /\ UNCHANGED << pipeline, input >>

SpecClean == InitClean /\ [][Clean]_vars

\* C10: clean_journal_title is idempotent: applied to its own result it
\* returns that result.
C10_CleanIdempotent == Len(output) >= 2 => output[2] = output[1]

=============================================================================
